---- MODULE Spec2Model ----
(***************************************************************************)
(* Writer / reviewer agent services (src/src/agents): the text adapter,    *)
(* the core responder, the three front-ends (POST /invoke, the A2A         *)
(* messaging handler, the MCP tool) and the service lifespan; and the      *)
(* orchestrator (src/src/agents/workflow.py); and the start-up script that *)
(* polls the two /healthz endpoints (src/scripts/wait_for_agents.py).      *)
(*                                                                         *)
(* Strings are sequences of one-character strings.  Two characters outside *)
(* ASCII are named by their code point: "U+0130" (LATIN CAPITAL LETTER I   *)
(* WITH DOT ABOVE) and "U+0307" (COMBINING DOT ABOVE).                     *)
(***************************************************************************)
EXTENDS Integers, Sequences, FiniteSets, TLC

VARIABLES
    text,        \* SpecParse: the argument of _parse_review_input
    parsed,      \* SpecParse: its result <<topic, draft>>, <<>> before the call
    service,     \* which agent this process runs: "writer" or "reviewer"
    environ,     \* os.environ, the variables the handlers read
    lifespan,    \* where _lifespan stands
    _runtime,    \* the module global _runtime: "None" or "AgentRuntime"
    client,      \* the model client of the runtime: none, open, closing, closed
    credential,  \* its credential: none, open, closing, closed
    pc,          \* per request: idle, awaiting (suspended in wait_for), done
    call,        \* per request: the handler called and its arguments
    frame,       \* per request: the locals the suspended handler holds
    elapsed,     \* per request: wait_for's timer has fired on the pending call
    modelCall,   \* per request: "none", or "issued" once get_response was called
    awaited,     \* per request: what the awaited wait_for(...) gave the responder
    outcome,     \* per request: what the responder returned or raised
    reply,       \* per request: what the handler gave its caller
    _access_token, \* AzureBearerTokenAuth._access_token: 0 for None, or a token
    _expires_on,   \* AzureBearerTokenAuth._expires_on
    _lock,         \* AzureBearerTokenAuth._lock: locked, and the queue of waiters
    now,           \* int(time.time())
    caller,        \* per caller of _get_access_token: position and result
    fetched,       \* what the credential.get_token calls completed so far gave
    a2a_base_url,  \* _fetch_reviewer_card: the base URL the card is fetched from
    advertised,    \* the card get_agent_card() returned, NoCard before
    agent_card,    \* the card _fetch_reviewer_card returned, NoCard before
    main_pc,       \* where main() stands
    shared_scope,  \* main: whether A2A_AUTH_SCOPE gives a scope
    http_client,   \* main: the httpx.AsyncClient: none, open, closed
    orch_credential, \* main: its `credential`: none (None), open, closed
    ending,        \* main: why it left the try block ("none" before)
    last_output_source,  \* main: the local of that name ("None" for None)
    final_output_source, \* main: the local of that name ("None" for None)
    events,        \* what the event stream gave since the last prompt was answered
    console,       \* what main printed since the last prompt was answered
    wait_pc,       \* wait_for_agents.main: not_started, polling, sleeping, returned, raised
    wait_args,     \* args: its parsed arguments: timeout and interval, in seconds
    since_start,   \* time.time() - start, in whole seconds
    last_print,    \* last_print - start
    writer_resp,   \* what the writer's /healthz answered in the last round
    reviewer_resp, \* what the reviewer's /healthz answered in the last round
    writer_ready,  \* the local of that name
    reviewer_ready, \* the local of that name
    wait_result    \* what main returned: 0 or 1, NoResult before

parseVars == <<text, parsed>>

svcVars == <<service, environ, lifespan, _runtime, client, credential,
             pc, call, frame, elapsed, modelCall, awaited, outcome, reply>>

reqVars == <<pc, call, frame, elapsed, modelCall, awaited, outcome, reply>>

lifeVars == <<lifespan, _runtime, client, credential>>

tokVars == <<_access_token, _expires_on, _lock, now, caller, fetched>>

cardVars == <<a2a_base_url, advertised, agent_card>>

mainVars == <<main_pc, shared_scope, http_client, orch_credential, ending,
              last_output_source, final_output_source, events, console>>

waitVars == <<wait_pc, wait_args, since_start, last_print, writer_resp, reviewer_resp,
              writer_ready, reviewer_ready, wait_result>>

orchVars == <<tokVars, cardVars, mainVars, waitVars>>

vars == <<text, parsed, service, environ, lifespan, _runtime, client, credential,
          pc, call, frame, elapsed, modelCall, awaited, outcome, reply,
          _access_token, _expires_on, _lock, now, caller, fetched,
          a2a_base_url, advertised, agent_card,
          main_pc, shared_scope, http_client, orch_credential, ending,
          last_output_source, final_output_source, events, console,
          wait_pc, wait_args, since_start, last_print, writer_resp, reviewer_resp,
          writer_ready, reviewer_ready, wait_result>>

(***************************************************************************)
(* Python str operations, as far as the sources use them.                  *)
(***************************************************************************)
NL == "\n"

SP == " "

\* str.isspace() on the characters of the model's alphabet
IsSpace(c) == c \in {SP, NL}

SeqMin(S) == CHOOSE m \in S : \A n \in S : m <= n

SeqMax(S) == CHOOSE m \in S : \A n \in S : n <= m

\* s.strip()
str_strip(s) ==
    LET keep == {i \in 1..Len(s) : ~IsSpace(s[i])}
    IN  IF keep = {} THEN <<>> ELSE SubSeq(s, SeqMin(keep), SeqMax(keep))

UpperChars ==
    <<"A","B","C","D","E","F","G","H","I","J","K","L","M",
      "N","O","P","Q","R","S","T","U","V","W","X","Y","Z">>

LowerChars ==
    <<"a","b","c","d","e","f","g","h","i","j","k","l","m",
      "n","o","p","q","r","s","t","u","v","w","x","y","z">>

\* c.lower() for one character: U+0130 is the one code point whose lowercase
\* form has two code points ("i" followed by U+0307).
char_lower(c) ==
    IF c = "U+0130" THEN <<"i", "U+0307">>
    ELSE IF \E i \in 1..Len(UpperChars) : UpperChars[i] = c
         THEN <<LowerChars[CHOOSE i \in 1..Len(UpperChars) : UpperChars[i] = c]>>
         ELSE <<c>>

RECURSIVE str_lower(_)
\* s.lower()
str_lower(s) ==
    IF s = <<>> THEN <<>> ELSE char_lower(Head(s)) \o str_lower(Tail(s))

\* s.find(pat): the 0-based index of the first occurrence, -1 when there is none
str_find(s, pat) ==
    LET hits == {i \in 0..(Len(s) - Len(pat)) : SubSeq(s, i + 1, i + Len(pat)) = pat}
    IN  IF hits = {} THEN -1 ELSE SeqMin(hits)

\* s[lo:hi] with 0 <= lo, as Python slices it (empty when lo >= hi, hi clipped)
str_slice(s, lo, hi) ==
    LET h == IF hi > Len(s) THEN Len(s) ELSE hi
    IN  IF lo >= h THEN <<>> ELSE SubSeq(s, lo + 1, h)

RECURSIVE str_splitlines(_)
\* s.splitlines(): a trailing line break opens no further line
str_splitlines(s) ==
    IF s = <<>> THEN <<>>
    ELSE LET brk == {i \in 1..Len(s) : s[i] = NL}
         IN  IF brk = {} THEN <<s>>
             ELSE <<SubSeq(s, 1, SeqMin(brk) - 1)>>
                  \o str_splitlines(SubSeq(s, SeqMin(brk) + 1, Len(s)))

RECURSIVE str_join(_, _)
\* sep.join(parts)
str_join(sep, parts) ==
    IF parts = <<>> THEN <<>>
    ELSE IF Len(parts) = 1 THEN parts[1]
    ELSE parts[1] \o sep \o str_join(sep, Tail(parts))

Str_topic == <<"t","o","p","i","c",":">>

Str_draft == <<"d","r","a","f","t",":">>

(***************************************************************************)
(* reviewer/main.py: _parse_review_input                                   *)
(***************************************************************************)
\* a value for `x or raw`
OrElse(x, dflt) == IF x = <<>> THEN dflt ELSE x

_parse_review_input(txt) ==
    LET raw       == str_strip(txt)
        lower     == str_lower(raw)
        topic_idx == str_find(lower, Str_topic)
        draft_idx == str_find(lower, Str_draft)
        topic1    == str_strip(str_slice(raw, topic_idx + Len(Str_topic), draft_idx))
        draft1    == str_strip(str_slice(raw, draft_idx + Len(Str_draft), Len(raw)))
        lines     == str_splitlines(raw)
        topic2    == str_strip(lines[1])
        draft2    == str_strip(str_join(<<NL>>, Tail(lines)))
    IN  IF /\ topic_idx # -1 /\ draft_idx # -1 /\ topic_idx < draft_idx
           /\ topic1 # <<>> /\ draft1 # <<>>
        THEN <<topic1, draft1>>
        ELSE IF Len(lines) >= 2
             THEN <<OrElse(topic2, raw), OrElse(draft2, raw)>>
             ELSE <<raw, raw>>

(***************************************************************************)
(* Values shared by the handlers.                                          *)
(***************************************************************************)
\* an environment variable that is not set, and one that is
Unset == [set |-> FALSE, value |-> <<>>]

SetTo(s) == [set |-> TRUE, value |-> s]

\* ids: None, the empty string, an id the caller sent, an id uuid4 minted
NoneId == [src |-> "None", n |-> 0]

EmptyId == [src |-> "empty", n |-> 0]

ClientId(k) == [src |-> "client", n |-> k]

\* a2a_hosting.py _new_id: uuid4 never repeats; the k-th id minted while
\* handling request r is told apart by (r, k)
_new_id(r, k) == [src |-> "uuid4", n |-> 2 * r + k]

\* on_message_send without the use of the request's id: always a minted one
context_id_minted(r, incoming) == _new_id(r, 1)

\* a2a_hosting.py on_message_send: incoming.context_id or _new_id(); `or`
\* takes the right operand for None and for the empty string
context_id(r, incoming) ==
    IF incoming.context_id \in {NoneId, EmptyId} THEN _new_id(r, 1)
    ELSE incoming.context_id

\* exceptions: type name, status code (HTTPException only) and message
HTTPException(status_code, detail) ==
    [type |-> "HTTPException", status_code |-> status_code, detail |-> detail]

OtherException(type, message) ==
    [type |-> type, status_code |-> 0, detail |-> message]

NoException == OtherException("", <<>>)

\* str(exc): starlette renders an HTTPException as "<status_code>: <detail>"
exc_str(exc) ==
    IF exc.type = "HTTPException"
    THEN <<ToString(exc.status_code), ": ">> \o exc.detail
    ELSE exc.detail

(***************************************************************************)
(* a2a_hosting.py: _env_str, _message_text, the error-detail flag          *)
(***************************************************************************)
\* _env_str without its strip()
_env_str_unstripped(value, default) ==
    IF ~value.set \/ value.value = <<>> THEN default ELSE value.value

_env_str(value, default) ==
    IF ~value.set \/ value.value = <<>> THEN default ELSE str_strip(value.value)

Str_false == <<"f","a","l","s","e">>

TruthyFlags == { <<"1">>, <<"t","r","u","e">>, <<"y","e","s">>, <<"y">> }

include_error_details ==
    str_lower(_env_str(environ.A2A_INCLUDE_ERROR_DETAILS, Str_false)) \in TruthyFlags

TextPart(s) == [kind |-> "text", text |-> s]

FilePart == [kind |-> "file", text |-> <<>>]

RECURSIVE TextChunks(_)
TextChunks(parts) ==
    IF parts = <<>> THEN <<>>
    ELSE IF Head(parts).kind = "text"
         THEN <<Head(parts).text>> \o TextChunks(Tail(parts))
         ELSE TextChunks(Tail(parts))

\* the join of the text chunks without the final .strip()
_message_text_unstripped(message) == str_join(<<NL>>, TextChunks(message.parts))

_message_text(message) == str_strip(str_join(<<NL>>, TextChunks(message.parts)))

(***************************************************************************)
(* common/text.py, writer/main.py _write_summary, reviewer/main.py         *)
(* _review_draft: the core responder.  The two responders differ in their  *)
(* prompt only; one model serves both.                                     *)
(***************************************************************************)
\* a ChatResponse: its .text is None or a string
ChatResponse(s) == [text_is_none |-> FALSE, text |-> s]

ChatResponseNoText == [text_is_none |-> TRUE, text |-> <<>>]

chat_response_text(response) ==
    IF response.text_is_none THEN <<>> ELSE response.text

Digits == {"0","1","2","3","4","5","6","7","8","9"}

\* float(os.getenv("AGENT_TIMEOUT_SECONDS", "30")) for the values of the model:
\* a string of digits converts, anything else raises ValueError
FloatConverts(value) ==
    LET s == IF value.set THEN value.value ELSE <<"3","0">>
    IN  s # <<>> /\ \A i \in 1..Len(s) : s[i] \in Digits

NotInitialized == HTTPException(503, <<"service not initialized">>)

\* the timeout reported with the status of an upstream failure
ModelCallTimedOut_as_502 == HTTPException(502, <<"model call timed out">>)

ModelCallTimedOut == HTTPException(504, <<"model call timed out">>)

ModelCallFailed(exc) == HTTPException(502, <<"model call failed: ">> \o exc_str(exc))

FloatValueError == OtherException("ValueError", <<"could not convert string to float">>)

\* the responder without its `_runtime is None` check
ResponderBegin_unchecked ==
    IF ~FloatConverts(environ.AGENT_TIMEOUT_SECONDS)
    THEN [step |-> "raise", exc |-> FloatValueError]
    ELSE [step |-> "await", exc |-> NoException]

\* the responder up to its await: what it raises, or "await" when it has
\* issued _runtime.client.get_response under asyncio.wait_for
ResponderBegin ==
    IF _runtime = "None" THEN [step |-> "raise", exc |-> NotInitialized]
    ELSE IF ~FloatConverts(environ.AGENT_TIMEOUT_SECONDS)
         THEN [step |-> "raise", exc |-> FloatValueError]
         ELSE [step |-> "await", exc |-> NoException]

\* what the awaited wait_for(...) gave: a response of the model call, an
\* exception of the model call, or the TimeoutError of wait_for itself
NotAwaited ==
    [src |-> "none", raised |-> FALSE, response |-> ChatResponseNoText, exc |-> NoException]

Returned(response) ==
    [src |-> "model", raised |-> FALSE, response |-> response, exc |-> NoException]

Raised(src, exc) ==
    [src |-> src, raised |-> TRUE, response |-> ChatResponseNoText, exc |-> exc]

\* the except clauses without the `except TimeoutError` arm
ExceptClause_one_arm(exc) == ModelCallFailed(exc)

\* the except clauses of the responder: `except TimeoutError` matches by class
ExceptClause(exc) ==
    IF exc.type = "TimeoutError" THEN ModelCallTimedOut ELSE ModelCallFailed(exc)

\* the responder from its await on: the text it returns or the exception it raises
NoOutcome == [state |-> "none", text |-> <<>>, exc |-> NoException]

ResponderRaises(exc) == [state |-> "raised", text |-> <<>>, exc |-> exc]

ResponderReturns(s) == [state |-> "returned", text |-> s, exc |-> NoException]

ResponderEnd(got) ==
    IF got.raised
    THEN ResponderRaises(ExceptClause(got.exc))
    ELSE ResponderReturns(str_strip(chat_response_text(got.response)))

(***************************************************************************)
(* writer/main.py, reviewer/main.py: InvokeRequest.  A long text is written *)
(* with one element standing for a run of the same character: "a*4000" is  *)
(* 4000 times "a", "a*20000" is 20000 times "a".                           *)
(***************************************************************************)
\* topic: str = Field(min_length=1, max_length=4000)
topic_max_length == 4000

\* draft: str = Field(min_length=1, max_length=20000)
draft_max_length == 20000

\* the number of characters an element of a text stands for
Width(ch) ==
    CASE ch = "a*4000" -> topic_max_length
      [] ch = "a*20000" -> draft_max_length
      [] OTHER -> 1

\* len(s)
RECURSIVE str_len(_)
str_len(s) == IF s = <<>> THEN 0 ELSE Width(Head(s)) + str_len(Tail(s))

\* a request body every value of which is accepted
InvokeRequestValid_any(payload) == TRUE

\* the validation fastapi runs on the body before invoke is called: the
\* writer's InvokeRequest has the topic only
InvokeRequestValid(payload) ==
    /\ str_len(payload.topic) >= 1
    /\ str_len(payload.topic) <= topic_max_length
    /\ service = "reviewer" =>
        /\ str_len(payload.draft) >= 1
        /\ str_len(payload.draft) <= draft_max_length

\* fastapi's answer to a body that fails validation
RequestValidationError ==
    [kind |-> "http", status_code |-> 422, detail |-> <<"Unprocessable Entity">>]

(***************************************************************************)
(* The front-ends: what each gives its caller for a responder outcome.     *)
(***************************************************************************)
NoMessage == [message_id |-> NoneId, context_id |-> NoneId, parts |-> <<>>]

NoCall == [via |-> "none", op |-> "", topic |-> <<>>, draft |-> <<>>, message |-> NoMessage]

\* handle: what `_runtime is None` read in the responder ("unread" before)
NoFrame == [context_id |-> NoneId, include_error_details |-> FALSE,
            topic |-> <<>>, draft |-> <<>>, handle |-> "unread"]

NoReply == [kind |-> "none"]

\* the comparison without draft.strip()
changes_made_unstripped(reviewed, draft) == reviewed # draft

\* reviewer invoke / review_summary: reviewed != draft.strip()
changes_made(reviewed, draft) == reviewed # str_strip(draft)

\* POST /invoke: fastapi renders an HTTPException as its status code and detail,
\* any other exception as a 500
InvokeReply(c, res) ==
    IF res.state = "returned"
    THEN IF service = "writer"
         THEN [kind |-> "http", status_code |-> 200, summary |-> res.text]
         ELSE [kind |-> "http", status_code |-> 200, reviewed |-> res.text,
               changes_made |-> changes_made(res.text, c.draft)]
    ELSE IF res.exc.type = "HTTPException"
         THEN [kind |-> "http", status_code |-> res.exc.status_code,
               detail |-> res.exc.detail]
         ELSE [kind |-> "http", status_code |-> 500,
               detail |-> <<"Internal Server Error">>]

GenericErrorText == <<"Error: internal server error">>

DetailedErrorText(exc) == <<"Error: ", exc.type, ": ">> \o exc_str(exc)

\* the Message on_message_send returns
ReplyMessage(r, fr, response_text) ==
    [kind |-> "message", role |-> "agent",
     parts |-> <<TextPart(response_text)>>,
     message_id |-> _new_id(r, 2), context_id |-> fr.context_id]

\* on_message_send without its try/except: the exception leaves the handler
MessageReply_uncaught(r, fr, res) ==
    IF res.state = "returned" THEN ReplyMessage(r, fr, res.text)
    ELSE [kind |-> "raised", exc |-> res.exc]

\* on_message_send from the try statement on
MessageReply(r, fr, res) ==
    ReplyMessage(r, fr,
        IF res.state = "returned" THEN res.text
        ELSE IF fr.include_error_details THEN DetailedErrorText(res.exc)
             ELSE GenericErrorText)

\* review_summary: the result record, or the responder's exception as it is
ToolReply(c, res) ==
    IF res.state = "returned"
    THEN [kind |-> "tool_result", reviewed |-> res.text,
          changes_made |-> changes_made(res.text, c.draft)]
    ELSE [kind |-> "raised", exc |-> res.exc]

Finish(r, c, fr, res) ==
    CASE c.via = "invoke" -> InvokeReply(c, res)
      [] c.via = "a2a"    -> MessageReply(r, fr, res)
      [] c.via = "tool"   -> ToolReply(c, res)

(***************************************************************************)
(* workflow.py: the orchestrator's state before anything runs.             *)
(***************************************************************************)
MaxCallers == 3

Callers == 1..MaxCallers

NoToken == 0

\* refresh_skew_seconds: int = 60
refresh_skew_seconds == 60

Unlocked == [locked |-> FALSE, waiters |-> <<>>]

NotCalled == [pc |-> "idle", via |-> "none", token |-> NoToken]

\* AzureBearerTokenAuth.__init__
InitToken ==
    /\ _access_token = NoToken
    /\ _expires_on = 0
    /\ _lock = Unlocked
    /\ now = 0
    /\ caller = [c \in Callers |-> NotCalled]
    /\ fetched = <<>>

\* an AgentCard object: its identity, and its url (None when has_url is false)
AgentCard(id, has_url, url) == [id |-> id, has_url |-> has_url, url |-> url]

NoCard == AgentCard(0, FALSE, <<>>)

\* WRITER_A2A_BASE_URL default, shortened
DefaultBaseUrl == <<"a">>

NoDiscovery ==
    /\ a2a_base_url = DefaultBaseUrl
    /\ advertised = NoCard
    /\ agent_card = NoCard

\* main() not called yet
MainNotStarted ==
    /\ main_pc = "not_started"
    /\ http_client = "none"
    /\ orch_credential = "none"
    /\ ending = "none"
    /\ last_output_source = "None"
    /\ final_output_source = "None"
    /\ events = <<>>
    /\ console = <<>>

(***************************************************************************)
(* scripts/wait_for_agents.py: the values of the poll, and its state       *)
(* before main() is called.  Times are whole seconds.                      *)
(***************************************************************************)
\* what one GET of a /healthz URL gives: status 0 when urlopen raised without
\* an HTTP status (connection refused, timeout), else the status and the body
Response(status, body) == [status |-> status, body |-> body]

NoBody == [kind |-> "none", initialized |-> "missing"]

\* a body that is no JSON document
NotJson == [kind |-> "not_json", initialized |-> "missing"]

\* a JSON document that is no object: [] for one
JsonArray == [kind |-> "array", initialized |-> "missing"]

\* a JSON object; `initialized` is the JSON text of its member of that name,
\* "missing" when it has none
JsonObject(initialized) == [kind |-> "object", initialized |-> initialized]

NoResponse == Response(0, NoBody)

NoResult == 0 - 1

NoArgs == [timeout |-> 0, interval |-> 0]

\* if now - last_print >= 2.0
print_every == 2

WaitNotStarted ==
    /\ wait_pc = "not_started"
    /\ wait_args = NoArgs
    /\ since_start = 0
    /\ last_print = 0
    /\ writer_resp = NoResponse
    /\ reviewer_resp = NoResponse
    /\ writer_ready = FALSE
    /\ reviewer_ready = FALSE
    /\ wait_result = NoResult

OrchestratorNotStarted ==
    InitToken /\ NoDiscovery /\ MainNotStarted /\ shared_scope = FALSE /\ WaitNotStarted

(***************************************************************************)
(* The requests of the model: what callers send, what the model call gives *)
(***************************************************************************)
MaxRequests == 1

Req == 1..MaxRequests

Topics == { <<"t">> }

Drafts == { <<SP, "a", SP>>, <<"b">> }

\* two text parts around a part of another kind
MixedParts == <<TextPart(<<"a">>), FilePart, TextPart(<<"b">>)>>

\* a message whose text parts hold nothing but whitespace
BlankParts == <<TextPart(<<SP>>), FilePart, TextPart(<<NL>>)>>

Message(c, p) == [message_id |-> ClientId(2), context_id |-> c, parts |-> p]

\* every context id and every part list occurs
Messages ==
    { Message(NoneId, <<>>),
      Message(EmptyId, MixedParts),
      Message(ClientId(1), MixedParts),
      Message(ClientId(1), BlankParts) }

ModelResponses == { ChatResponseNoText, ChatResponse(<<"a", SP>>) }

\* what get_response itself may raise before the bound elapses
ModelExceptions ==
    { OtherException("TimeoutError", <<"read timed out">>),
      OtherException("ServiceResponseError", <<"connection reset">>) }

FlagValues ==
    { Unset, SetTo(<<>>), SetTo(<<"T","R","U","E">>), SetTo(<<SP,"y",SP>>),
      SetTo(<<"n","o">>) }

TimeoutValues == { Unset, SetTo(<<"x">>) }

(***************************************************************************)
(* The handlers.  A handler runs to its first await (the model call) in    *)
(* one step and is resumed by what the await gives.                        *)
(***************************************************************************)
\* the ASGI server serves no request of an app whose lifespan startup failed
Accepting == lifespan # "startup_failed"

\* the call of the responder made by a front-end, up to the await
Begin(r, c, fr) ==
    /\ Accepting
    /\ pc[r] = "idle"
    /\ call' = [call EXCEPT ![r] = c]
    /\ frame' = [frame EXCEPT ![r] = [fr EXCEPT !.handle = _runtime]]
    /\ IF ResponderBegin.step = "raise"
       THEN /\ pc' = [pc EXCEPT ![r] = "done"]
            /\ outcome' = [outcome EXCEPT ![r] = ResponderRaises(ResponderBegin.exc)]
            /\ reply' = [reply EXCEPT ![r] =
                            Finish(r, c, fr, ResponderRaises(ResponderBegin.exc))]
            /\ UNCHANGED modelCall
       ELSE /\ pc' = [pc EXCEPT ![r] = "awaiting"]
            /\ modelCall' = [modelCall EXCEPT ![r] = "issued"]
            /\ UNCHANGED <<outcome, reply>>
    /\ UNCHANGED <<elapsed, awaited, service, environ, lifeVars, parseVars, orchVars>>

\* the rest of the handler once the await gave `awaited`
Resume(r, got) ==
    /\ pc[r] = "awaiting"
    /\ pc' = [pc EXCEPT ![r] = "done"]
    /\ awaited' = [awaited EXCEPT ![r] = got]
    /\ outcome' = [outcome EXCEPT ![r] = ResponderEnd(got)]
    /\ reply' = [reply EXCEPT ![r] = Finish(r, call[r], frame[r], ResponderEnd(got))]
    /\ UNCHANGED <<call, frame, elapsed, modelCall, service, environ, lifeVars, parseVars, orchVars>>

\* the bodies sent to POST /invoke: topic and draft at and beyond both ends
\* of the accepted lengths (the writer reads the topic only)
InvokePayloads ==
    IF service = "writer"
    THEN { [topic |-> t, draft |-> <<>>] :
             t \in { <<"t">>, <<>>, <<"a*4000", "a">> } }
    ELSE { [topic |-> <<"t">>, draft |-> <<SP, "a", SP>>],
           [topic |-> <<"a*4000">>, draft |-> <<"a*20000">>],
           [topic |-> <<>>, draft |-> <<"b">>],
           [topic |-> <<"a*4000", "a">>, draft |-> <<"b">>],
           [topic |-> <<"t">>, draft |-> <<>>],
           [topic |-> <<"t">>, draft |-> <<"a*20000", "a">>] }

\* writer/main.py and reviewer/main.py: POST /invoke
Invoke(r) ==
    \E payload \in InvokePayloads :
        LET c == [NoCall EXCEPT !.via = "invoke", !.topic = payload.topic,
                                !.draft = payload.draft]
        IN  IF InvokeRequestValid(payload)
            THEN Begin(r, c, [NoFrame EXCEPT !.topic = payload.topic,
                                             !.draft = payload.draft])
            ELSE /\ Accepting
                 /\ pc[r] = "idle"
                 /\ pc' = [pc EXCEPT ![r] = "done"]
                 /\ call' = [call EXCEPT ![r] = c]
                 /\ reply' = [reply EXCEPT ![r] = RequestValidationError]
                 /\ UNCHANGED <<frame, elapsed, modelCall, awaited, outcome,
                                service, environ, lifeVars, parseVars, orchVars>>

\* a2a_hosting.py: on_message_send, with the respond hook of the service
OnMessageSend(r) ==
    \E message \in Messages :
        LET user_text  == _message_text(message)
            args       == IF service = "writer" THEN <<user_text, <<>>>>
                          ELSE _parse_review_input(user_text)
        IN  Begin(r, [NoCall EXCEPT !.via = "a2a", !.message = message],
                     [NoFrame EXCEPT !.context_id = context_id(r, message),
                                     !.include_error_details = include_error_details,
                                     !.topic = args[1], !.draft = args[2]])

ServiceNotInitialized == OtherException("RuntimeError", <<"Service not initialized">>)

\* reviewer/main.py: the MCP tool review_summary
ReviewSummary(r) ==
    /\ service = "reviewer"
    /\ \E topic \in Topics, draft \in Drafts :
        LET c == [NoCall EXCEPT !.via = "tool", !.topic = topic, !.draft = draft]
        IN  IF _runtime = "None"
            THEN /\ Accepting
                 /\ pc[r] = "idle"
                 /\ pc' = [pc EXCEPT ![r] = "done"]
                 /\ call' = [call EXCEPT ![r] = c]
                 /\ reply' = [reply EXCEPT ![r] =
                                 [kind |-> "raised", exc |-> ServiceNotInitialized]]
                 /\ UNCHANGED <<frame, elapsed, modelCall, awaited, outcome,
                                service, environ, lifeVars, parseVars, orchVars>>
            ELSE Begin(r, c, [NoFrame EXCEPT !.topic = topic, !.draft = draft])

\* get_response returns before the bound
ModelReturns(r) ==
    /\ ~elapsed[r]
    /\ \E response \in ModelResponses : Resume(r, Returned(response))

\* get_response raises before the bound
ModelRaises(r) ==
    /\ ~elapsed[r]
    /\ \E exc \in ModelExceptions : Resume(r, Raised("model", exc))

\* the bound of wait_for elapses with the call pending: the call is cancelled
BoundElapses(r) ==
    /\ pc[r] = "awaiting"
    /\ ~elapsed[r]
    /\ elapsed' = [elapsed EXCEPT ![r] = TRUE]
    /\ UNCHANGED <<pc, call, frame, modelCall, awaited, outcome, reply,
                   service, environ, lifeVars, parseVars, orchVars>>

WaitForTimeout == OtherException("TimeoutError", <<>>)

\* wait_for raises TimeoutError into the responder
WaitForTimesOut(r) ==
    /\ elapsed[r]
    /\ Resume(r, Raised("wait_for", WaitForTimeout))

\* a handler that finishes at once with `result`
Immediate(r, via, op, result) ==
    /\ Accepting
    /\ pc[r] = "idle"
    /\ pc' = [pc EXCEPT ![r] = "done"]
    /\ call' = [call EXCEPT ![r] = [NoCall EXCEPT !.via = via, !.op = op]]
    /\ reply' = [reply EXCEPT ![r] = result]
    /\ UNCHANGED <<frame, elapsed, modelCall, awaited, outcome,
                   service, environ, lifeVars, parseVars, orchVars>>

ReturnsNone == [kind |-> "returned", value |-> "None"]

RaisesUnsupported ==
    [kind |-> "raised", exc |-> OtherException("ServerError", <<"UnsupportedOperationError">>)]

\* a2a_hosting.py: the handlers outside message send
OnGetTask(r) == Immediate(r, "task_op", "on_get_task", ReturnsNone)

OnCancelTask(r) == Immediate(r, "task_op", "on_cancel_task", ReturnsNone)

OnSetTaskPushNotificationConfig(r) ==
    Immediate(r, "task_op", "on_set_task_push_notification_config", RaisesUnsupported)

OnGetTaskPushNotificationConfig(r) ==
    Immediate(r, "task_op", "on_get_task_push_notification_config", RaisesUnsupported)

OnResubscribeToTask(r) == Immediate(r, "task_op", "on_resubscribe_to_task", RaisesUnsupported)

OnListTaskPushNotificationConfig(r) ==
    Immediate(r, "task_op", "on_list_task_push_notification_config", RaisesUnsupported)

OnDeleteTaskPushNotificationConfig(r) ==
    Immediate(r, "task_op", "on_delete_task_push_notification_config", RaisesUnsupported)

\* healthz with a constant answer
initialized_always == TRUE

\* writer/main.py, reviewer/main.py healthz: "initialized": _runtime is not None
initialized == _runtime # "None"

\* GET /healthz
Healthz(r) ==
    Immediate(r, "http", "healthz",
              [kind |-> "health", status |-> "ok", initialized |-> initialized])

(***************************************************************************)
(* writer/main.py, reviewer/main.py: _lifespan                             *)
(***************************************************************************)
\* _runtime = create_azure_ai_agent_client(...), then the yield
Startup ==
    /\ lifespan = "not_started"
    /\ lifespan' = "serving"
    /\ _runtime' = "AgentRuntime"
    /\ client' = "open"
    /\ credential' = "open"
    /\ UNCHANGED <<service, environ, reqVars, parseVars, orchVars>>

\* the handle is created and the statement before the try raises
\* (span.set_attribute("agent.name", str(_runtime.client.agent_name))): the
\* exception leaves _lifespan, the finally block is not entered
StartupFails ==
    /\ lifespan = "not_started"
    /\ lifespan' = "startup_failed"
    /\ _runtime' = "AgentRuntime"
    /\ client' = "open"
    /\ credential' = "open"
    /\ UNCHANGED <<service, environ, reqVars, parseVars, orchVars>>

\* shutdown with credential.close() ahead of client.close()
ShutdownBegins_credential_first ==
    /\ lifespan = "serving"
    /\ _runtime # "None"
    /\ lifespan' = "closing_credential"
    /\ credential' = "closing"
    /\ UNCHANGED <<_runtime, client, service, environ, reqVars, parseVars, orchVars>>

\* the lifespan ends, by shutdown or by an exception thrown in at the yield:
\* the finally block begins with await _runtime.client.close()
ShutdownBegins ==
    /\ lifespan = "serving"
    /\ _runtime # "None"
    /\ lifespan' = "closing_client"
    /\ client' = "closing"
    /\ UNCHANGED <<_runtime, credential, service, environ, reqVars, parseVars, orchVars>>

\* client.close() returns: await _runtime.credential.close()
ClientCloseReturns ==
    /\ lifespan = "closing_client"
    /\ lifespan' = "closing_credential"
    /\ client' = "closed"
    /\ credential' = "closing"
    /\ UNCHANGED <<_runtime, service, environ, reqVars, parseVars, orchVars>>

\* client.close() raises: the exception leaves the finally block, neither
\* credential.close() nor _runtime = None is reached
ClientCloseRaises ==
    /\ lifespan = "closing_client"
    /\ lifespan' = "client_close_failed"
    /\ client' = "close_failed"
    /\ UNCHANGED <<_runtime, credential, service, environ, reqVars, parseVars, orchVars>>

\* credential.close() raises: _runtime = None is not reached
CredentialCloseRaises ==
    /\ lifespan = "closing_credential"
    /\ lifespan' = "credential_close_failed"
    /\ credential' = "close_failed"
    /\ UNCHANGED <<_runtime, client, service, environ, reqVars, parseVars, orchVars>>

\* credential.close() returns: _runtime = None
CredentialCloseReturns ==
    /\ lifespan = "closing_credential"
    /\ lifespan' = "stopped"
    /\ credential' = "closed"
    /\ _runtime' = "None"
    /\ UNCHANGED <<client, service, environ, reqVars, parseVars, orchVars>>

(***************************************************************************)
(* Spec: one service process, its lifespan and its requests.               *)
(***************************************************************************)
InitRequests ==
    /\ pc = [r \in Req |-> "idle"]
    /\ call = [r \in Req |-> NoCall]
    /\ frame = [r \in Req |-> NoFrame]
    /\ elapsed = [r \in Req |-> FALSE]
    /\ modelCall = [r \in Req |-> "none"]
    /\ awaited = [r \in Req |-> NotAwaited]
    /\ outcome = [r \in Req |-> NoOutcome]
    /\ reply = [r \in Req |-> NoReply]

InitLifespan ==
    /\ lifespan = "not_started"
    /\ _runtime = "None"
    /\ client = "none"
    /\ credential = "none"

Init ==
    /\ service \in {"writer", "reviewer"}
    /\ environ \in [A2A_INCLUDE_ERROR_DETAILS : FlagValues,
                    AGENT_TIMEOUT_SECONDS : TimeoutValues]
    /\ InitLifespan
    /\ InitRequests
    /\ text = <<>>
    /\ parsed = <<>>
    /\ OrchestratorNotStarted

Next ==
    \/ Startup
    \/ StartupFails
    \/ ShutdownBegins
    \/ ClientCloseReturns
    \/ ClientCloseRaises
    \/ CredentialCloseReturns
    \/ CredentialCloseRaises
    \/ \E r \in Req : Healthz(r)
    \/ \E r \in Req : Invoke(r)
    \/ \E r \in Req : OnMessageSend(r)
    \/ \E r \in Req : ReviewSummary(r)
    \/ \E r \in Req : ModelReturns(r)
    \/ \E r \in Req : ModelRaises(r)
    \/ \E r \in Req : BoundElapses(r)
    \/ \E r \in Req : WaitForTimesOut(r)
    \/ \E r \in Req : OnGetTask(r)
    \/ \E r \in Req : OnCancelTask(r)
    \/ \E r \in Req : OnSetTaskPushNotificationConfig(r)
    \/ \E r \in Req : OnGetTaskPushNotificationConfig(r)
    \/ \E r \in Req : OnResubscribeToTask(r)
    \/ \E r \in Req : OnListTaskPushNotificationConfig(r)
    \/ \E r \in Req : OnDeleteTaskPushNotificationConfig(r)

Spec == Init /\ [][Next]_vars

\* the event loop resumes a handler whose wait_for timed out
FairSpec == Spec /\ \A r \in Req : WF_vars(WaitForTimesOut(r))

(***************************************************************************)
(* SpecParse: _parse_review_input applied to every text built from at most *)
(* MaxFragments fragments, and to the two texts the documentation quotes.  *)
(***************************************************************************)
MaxFragments == 6

Fragments ==
    { Str_topic,
      <<"D","r","a","f","t",":">>,
      <<SP>>, <<NL>>, <<"a">>, <<"U+0130">> }

RECURSIVE Concats(_)
Concats(n) ==
    IF n = 0 THEN {<<>>}
    ELSE LET shorter == Concats(n - 1)
         IN  shorter \cup {s \o f : s \in shorter, f \in Fragments}

\* "Topic: Rust\n\nDraft: rust is a language"
ExampleTopicDraft ==
    <<"T","o","p","i","c",":",SP,"R","u","s","t",NL,NL,
      "D","r","a","f","t",":",SP,"r","u","s","t",SP,"i","s",SP,"a",SP,
      "l","a","n","g","u","a","g","e">>

\* "Climate change\nPolar bears are affected by melting ice."
ExampleTwoLines ==
    <<"C","l","i","m","a","t","e",SP,"c","h","a","n","g","e",NL,
      "P","o","l","a","r",SP,"b","e","a","r","s",SP,"a","r","e",SP,
      "a","f","f","e","c","t","e","d",SP,"b","y",SP,
      "m","e","l","t","i","n","g",SP,"i","c","e",".">>

ParseInputs == Concats(MaxFragments) \cup {ExampleTopicDraft, ExampleTwoLines}

NotParsed == <<>>

InitParse ==
    /\ text \in ParseInputs
    /\ parsed = NotParsed
    /\ service = "reviewer"
    /\ environ = [A2A_INCLUDE_ERROR_DETAILS |-> Unset, AGENT_TIMEOUT_SECONDS |-> Unset]
    /\ InitLifespan
    /\ InitRequests
    /\ OrchestratorNotStarted

ParseReviewInput ==
    /\ parsed = NotParsed
    /\ parsed' = _parse_review_input(text)
    /\ UNCHANGED <<text, svcVars, orchVars>>

NextParse == ParseReviewInput

SpecParse == InitParse /\ [][NextParse]_vars

(***************************************************************************)
(* The text adapter's rules as section 4.1 of the documentation words      *)
(* them, on the characters of the text itself.                             *)
(***************************************************************************)
\* the first position (0-based) where pat occurs in s, letter case ignored
FindIgnoringCase(s, pat) ==
    LET hits == {i \in 0..(Len(s) - Len(pat)) :
                    \A k \in 1..Len(pat) : char_lower(s[i + k]) = <<pat[k]>>}
    IN  IF hits = {} THEN -1 ELSE SeqMin(hits)

TopicField(raw) ==
    str_strip(str_slice(raw, FindIgnoringCase(raw, Str_topic) + Len(Str_topic),
                        FindIgnoringCase(raw, Str_draft)))

DraftField(raw) ==
    str_strip(str_slice(raw, FindIgnoringCase(raw, Str_draft) + Len(Str_draft), Len(raw)))

\* rule 1 applies: both markers, "topic:" first, both fields non-empty
TopicDraftForm(raw) ==
    /\ FindIgnoringCase(raw, Str_topic) # -1
    /\ FindIgnoringCase(raw, Str_draft) # -1
    /\ FindIgnoringCase(raw, Str_topic) < FindIgnoringCase(raw, Str_draft)
    /\ TopicField(raw) # <<>>
    /\ DraftField(raw) # <<>>

MultiLine(raw) == \E i \in 1..Len(raw) : raw[i] = NL

FirstBreak(raw) == SeqMin({i \in 1..Len(raw) : raw[i] = NL})

FirstLine(raw) == str_strip(SubSeq(raw, 1, FirstBreak(raw) - 1))

RestLines(raw) == str_strip(SubSeq(raw, FirstBreak(raw) + 1, Len(raw)))

\* C5: every text that has "topic:" before "draft:" (letter case ignored) with
\* both fields non-empty after trimming is parsed as exactly (the trimmed text
\* between the two markers, the trimmed text after "draft:").
C5_TopicDraftFields ==
    parsed # NotParsed =>
        LET raw == str_strip(text)
        IN  TopicDraftForm(raw) => parsed = <<TopicField(raw), DraftField(raw)>>

\* C6: every multi-line text that rule 1 does not accept is parsed as (first
\* line, remaining lines joined by newline), each trimmed, with the whole text
\* standing in for a side that trims to empty.
C6_FirstLineAndRest ==
    parsed # NotParsed =>
        LET raw == str_strip(text)
        IN  (~TopicDraftForm(raw) /\ MultiLine(raw)) =>
                parsed = <<OrElse(FirstLine(raw), raw), OrElse(RestLines(raw), raw)>>

\* C7: every single-line text that rule 1 does not accept is parsed as the
\* same string for topic and draft: the whole (trimmed) text.
C7_SingleLineBoth ==
    parsed # NotParsed =>
        LET raw == str_strip(text)
        IN  (~TopicDraftForm(raw) /\ ~MultiLine(raw)) => parsed = <<raw, raw>>

(***************************************************************************)
(* The claims about the service (Spec, FairSpec).                          *)
(***************************************************************************)
Done(r, via) == pc[r] = "done" /\ call[r].via = via

RECURSIVE TrimLeft(_)
TrimLeft(s) == IF s # <<>> /\ Head(s) \in {SP, NL} THEN TrimLeft(Tail(s)) ELSE s

RECURSIVE TrimRight(_)
TrimRight(s) ==
    IF s # <<>> /\ s[Len(s)] \in {SP, NL} THEN TrimRight(SubSeq(s, 1, Len(s) - 1)) ELSE s

\* s without its leading and trailing whitespace
Trimmed(s) == TrimRight(TrimLeft(s))

\* C1: whatever exception the respond hook raises, on_message_send returns a
\* Message: role agent, exactly one text part, a message id, and the context id
\* of the request (the one minted for the request when it carried none or an
\* empty one).
C1_ErrorReplyIsMessage ==
    \A r \in Req :
        (Done(r, "a2a") /\ outcome[r].state = "raised") =>
            /\ reply[r].kind = "message"
            /\ reply[r].role = "agent"
            /\ Len(reply[r].parts) = 1
            /\ reply[r].parts[1].kind = "text"
            /\ reply[r].message_id # NoneId
            /\ reply[r].context_id # NoneId
            /\ reply[r].context_id = frame[r].context_id
            /\ call[r].message.context_id \notin {NoneId, EmptyId} =>
                   reply[r].context_id = call[r].message.context_id

\* the respond hook raised each of its three HTTP errors and a ValueError
C1_Witness ==
    \E r \in Req :
        /\ Done(r, "a2a")
        /\ outcome[r].state = "raised"
        /\ outcome[r].exc.status_code = 504
        /\ reply[r].kind = "message"
        /\ call[r].message.context_id = ClientId(1)

\* the status /invoke gives for request r
Status(r) == reply[r].status_code

\* C2 as stated: through /invoke, handle unset -> 503, bound elapsed -> 504,
\* any other exception raised by the model call -> 502 carrying its message,
\* and no failed model call gives a success response.
C2_AsStated ==
    \A r \in Req :
        Done(r, "invoke") =>
            /\ frame[r].handle = "None" => Status(r) = 503
            /\ (awaited[r].raised /\ awaited[r].src = "wait_for") => Status(r) = 504
            /\ (awaited[r].raised /\ awaited[r].src = "model") =>
                   /\ Status(r) = 502
                   /\ reply[r].detail = <<"model call failed: ">> \o awaited[r].exc.detail
            /\ awaited[r].raised => Status(r) # 200

\* C2 (amended): through /invoke, handle unset -> 503; bound elapsed, or a
\* TimeoutError raised by the model call itself -> 504; any exception of
\* another class raised by the model call -> 502 carrying its message; no
\* failed model call gives a success response.
C2_StatusCodes ==
    \A r \in Req :
        Done(r, "invoke") =>
            /\ frame[r].handle = "None" => Status(r) = 503
            /\ (awaited[r].raised /\ awaited[r].src = "wait_for") => Status(r) = 504
            /\ (awaited[r].raised /\ awaited[r].src = "model"
                    /\ awaited[r].exc.type = "TimeoutError") => Status(r) = 504
            /\ (awaited[r].raised /\ awaited[r].src = "model"
                    /\ awaited[r].exc.type # "TimeoutError") =>
                   /\ Status(r) = 502
                   /\ reply[r].detail = <<"model call failed: ">> \o awaited[r].exc.detail
            /\ awaited[r].raised => Status(r) # 200

\* a model call that raised an exception other than TimeoutError gave 502
C2_Witness ==
    \E r \in Req :
        /\ Done(r, "invoke")
        /\ awaited[r].src = "model"
        /\ awaited[r].raised
        /\ awaited[r].exc.type = "ServiceResponseError"
        /\ Status(r) = 502

TimedOutPending(r) == pc[r] = "awaiting" /\ elapsed[r]

\* C3: once the bound has elapsed on a pending model call the responder
\* finishes, and it finishes with the timeout condition (504), not with the
\* upstream failure (502) and not with a result.
C3_TimeoutEnds ==
    /\ \A r \in Req : TimedOutPending(r) ~>
            (pc[r] = "done" /\ outcome[r].state = "raised" /\ outcome[r].exc.status_code = 504)
    /\ [](\A r \in Req : (pc[r] = "done" /\ elapsed[r]) =>
            (outcome[r].state = "raised" /\ outcome[r].exc.status_code = 504))

\* a request whose bound elapsed has finished
C3_Witness ==
    \E r \in Req :
        /\ pc[r] = "done"
        /\ elapsed[r]
        /\ awaited[r].src = "wait_for"
        /\ outcome[r].exc.status_code = 504

\* C4: a responder call that finds the handle unset (before startup or after
\* shutdown cleared it) raises the not-initialized condition, 503 via /invoke,
\* without issuing a model call; and no step of shutdown waits for a request.
C4_UnsetHandle ==
    /\ \A r \in Req :
        frame[r].handle = "None" =>
            /\ pc[r] = "done"
            /\ outcome[r] = ResponderRaises(NotInitialized)
            /\ modelCall[r] = "none"
            /\ call[r].via = "invoke" => Status(r) = 503
    /\ lifespan = "serving" => ENABLED ShutdownBegins
    /\ lifespan = "closing_client" => ENABLED ClientCloseReturns
    /\ lifespan = "closing_credential" => ENABLED CredentialCloseReturns

\* a call made after shutdown cleared the handle
C4_Witness ==
    \E r \in Req :
        /\ lifespan = "stopped"
        /\ Done(r, "invoke")
        /\ frame[r].handle = "None"
        /\ Status(r) = 503

\* C8: in a successful reviewer /invoke response and review_summary result,
\* changes_made is true exactly when the trimmed model output differs from the
\* trimmed draft.
C8_ChangesMade ==
    \A r \in Req :
        (service = "reviewer" /\ (Done(r, "invoke") \/ Done(r, "tool"))
            /\ awaited[r].src = "model" /\ ~awaited[r].raised) =>
            /\ reply[r].kind \in {"http", "tool_result"}
            /\ reply[r].reviewed = Trimmed(chat_response_text(awaited[r].response))
            /\ reply[r].changes_made =
                   (Trimmed(chat_response_text(awaited[r].response)) # Trimmed(call[r].draft))

\* draft " a " and model output "a ": they differ by outer whitespace only
C8_Witness ==
    \E r \in Req :
        /\ service = "reviewer"
        /\ Done(r, "tool")
        /\ call[r].draft = <<SP, "a", SP>>
        /\ awaited[r].response = ChatResponse(<<"a", SP>>)
        /\ reply[r].kind = "tool_result"
        /\ reply[r].changes_made = FALSE

\* C9: every handler outside message send raises the unsupported-operation
\* error; none returns normally.
C9_UnsupportedRaise ==
    \A r \in Req :
        Done(r, "task_op") => reply[r] = RaisesUnsupported

\* the value of A2A_INCLUDE_ERROR_DETAILS
Flag == environ.A2A_INCLUDE_ERROR_DETAILS

ErrorText(r) == reply[r].parts[1].text

ErrorReply(r) == Done(r, "a2a") /\ outcome[r].state = "raised"

DetailsIn(r) ==
    /\ Len(ErrorText(r)) > 3
    /\ ErrorText(r)[2] = outcome[r].exc.type
    /\ SubSeq(ErrorText(r), 4, Len(ErrorText(r))) = exc_str(outcome[r].exc)

\* C10 as stated: with the flag unset or not one of 1/true/yes/y (letter case
\* ignored) every error reply has the same generic text; with the flag one of
\* them the text has the exception's type name and message.
C10_AsStated ==
    \A r \in Req :
        ErrorReply(r) =>
            IF Flag.set /\ str_lower(Flag.value) \in TruthyFlags
            THEN DetailsIn(r)
            ELSE ErrorText(r) = GenericErrorText

\* the flag is on: set, and one of 1/true/yes/y once trimmed (letter case ignored)
FlagOn == Flag.set /\ str_lower(Trimmed(Flag.value)) \in TruthyFlags

\* C10 (amended): with the flag unset, empty, or not one of 1/true/yes/y after
\* trimming surrounding whitespace (letter case ignored), every error reply has
\* the same generic text whatever the exception; with the flag one of them
\* after trimming, the text has the exception's type name and message.
C10_ErrorDetailFlag ==
    /\ \A r \in Req :
        ErrorReply(r) =>
            IF FlagOn THEN DetailsIn(r) ELSE ErrorText(r) = GenericErrorText
    /\ \A r1, r2 \in Req :
        (ErrorReply(r1) /\ ErrorReply(r2) /\ ~FlagOn) => ErrorText(r1) = ErrorText(r2)

\* an error reply with details, the flag being " y "
C10_Witness ==
    \E r \in Req :
        /\ ErrorReply(r)
        /\ Flag = SetTo(<<SP, "y", SP>>)
        /\ DetailsIn(r)
        /\ outcome[r].exc.status_code = 502


\* C11 as stated: on_message_send uses the message's context id when it is
\* present and mints one when it is absent; the responder and the reply get
\* that same id, on success and on error; the reply's message id is minted for
\* the reply, never copied from the request.
C11_AsStated ==
    \A r \in Req :
        Done(r, "a2a") =>
            /\ call[r].message.context_id # NoneId =>
                   reply[r].context_id = call[r].message.context_id
            /\ call[r].message.context_id = NoneId =>
                   reply[r].context_id.src = "uuid4"
            /\ reply[r].context_id = frame[r].context_id
            /\ reply[r].message_id.src = "uuid4"
            /\ reply[r].message_id # call[r].message.message_id

\* the ids minted so far: the context ids minted and the replies' message ids
MintedIds(r) ==
    (IF frame[r].context_id.src = "uuid4" THEN {frame[r].context_id} ELSE {})
        \cup (IF reply[r].kind = "message" THEN {reply[r].message_id} ELSE {})

\* C11 (amended): on_message_send uses the message's context id when it is
\* present and not empty and mints one when it is absent or the empty string;
\* the responder and the reply get that same id, on success and on error; the
\* reply's message id is minted for the reply: it is not the request's message
\* id, not the context id, and no other request's minted id.
C11_ContextId ==
    \A r \in Req :
        /\ (pc[r] # "idle" /\ call[r].via = "a2a") =>
            /\ call[r].message.context_id \notin {NoneId, EmptyId} =>
                   frame[r].context_id = call[r].message.context_id
            /\ call[r].message.context_id \in {NoneId, EmptyId} =>
                   /\ frame[r].context_id.src = "uuid4"
                   /\ frame[r].context_id # call[r].message.message_id
        /\ Done(r, "a2a") =>
            /\ reply[r].kind = "message"
            /\ reply[r].context_id = frame[r].context_id
            /\ reply[r].message_id.src = "uuid4"
            /\ reply[r].message_id # call[r].message.message_id
            /\ reply[r].message_id # reply[r].context_id
            /\ \A q \in Req \ {r} : MintedIds(q) \cap MintedIds(r) = {}

\* an error reply to a message that carried a context id
C11_Witness ==
    \E r \in Req :
        /\ Done(r, "a2a")
        /\ outcome[r].state = "raised"
        /\ call[r].message.context_id = ClientId(1)
        /\ reply[r].context_id = ClientId(1)


\* a step of GET /healthz for request r
HealthzStep(r) == pc[r] = "idle" /\ pc'[r] = "done" /\ call'[r].op = "healthz"

\* C12: GET /healthz reports initialized = false before startup has completed,
\* true from then until shutdown begins, and always whether the handle is set
\* at that moment; a call changes nothing but its own response, so repeated
\* calls with no lifecycle step in between give the same value.
C12_Healthz ==
    [][\A r \in Req :
         HealthzStep(r) =>
            /\ reply'[r].initialized = (_runtime # "None")
            /\ lifespan = "not_started" => ~reply'[r].initialized
            /\ lifespan = "serving" => reply'[r].initialized
            /\ reply'[r].status = "ok"
            /\ UNCHANGED <<service, environ, lifeVars, frame, elapsed, modelCall,
                           awaited, outcome>>
            /\ \A q \in Req \ {r} :
                   pc'[q] = pc[q] /\ call'[q] = call[q] /\ reply'[q] = reply[q]]_vars

\* healthz answered true while shutdown is under way and the handle still set
C12_Witness ==
    \E r \in Req :
        /\ Done(r, "http")
        /\ call[r].op = "healthz"
        /\ reply[r].initialized
        /\ lifespan = "closing_credential"

\* the lifespan has ended, after it created the handle
LifespanEnded ==
    lifespan \in {"stopped", "startup_failed", "client_close_failed",
                  "credential_close_failed"}

\* C13: once the lifespan has created the handle, however the lifespan ends
\* (an exception between creation and serving, an exception during serving, a
\* failing client close()), the credential's close() has been called.
C13_CredentialReleased ==
    LifespanEnded => credential \in {"closed", "close_failed"}

\* C14: on shutdown the client is closed first, the credential's close() starts
\* only after the client's close() has completed, the handle is cleared only
\* after both; no step of the sequence waits for a request in flight.
C14_ShutdownOrder ==
    /\ [](credential \in {"closing", "closed", "close_failed"} => client = "closed")
    /\ []((_runtime = "None" /\ lifespan # "not_started") =>
             (client = "closed" /\ credential = "closed"))
    /\ [][/\ (credential # "closing" /\ credential' = "closing") =>
                 (client = "closing" /\ client' = "closed")
          /\ (_runtime # "None" /\ _runtime' = "None") =>
                 (client = "closed" /\ credential = "closing" /\ credential' = "closed")
         ]_vars
    /\ [](lifespan = "serving" => ENABLED ShutdownBegins)
    /\ [](lifespan = "closing_client" => ENABLED ClientCloseReturns)
    /\ [](lifespan = "closing_credential" => ENABLED CredentialCloseReturns)

\* shutdown ran to its end while a model call was still pending
C14_Witness ==
    \E r \in Req :
        /\ pc[r] = "awaiting"
        /\ lifespan = "stopped"
        /\ client = "closed"
        /\ credential = "closed"
        /\ _runtime = "None"

RECURSIVE Chars(_)
\* the number of characters of a text, a run counted with its length
Chars(s) ==
    IF s = <<>> THEN 0
    ELSE (CASE Head(s) = "a*4000" -> 4000
            [] Head(s) = "a*20000" -> 20000
            [] OTHER -> 1) + Chars(Tail(s))

\* the body of request r is inside the documented lengths
WithinLengths(r) ==
    /\ Chars(call[r].topic) \in 1..4000
    /\ service = "reviewer" => Chars(call[r].draft) \in 1..20000

\* the core responder was called for request r
ResponderCalled(r) == frame[r].handle # "unread"

\* C21: a POST /invoke whose topic is not 1..4000 characters long (writer and
\* reviewer) or whose draft is not 1..20000 characters long (reviewer) is
\* rejected and the core responder is not called; the responder is reached
\* through /invoke only with a body inside those lengths.
C21_InvokeValidation ==
    \A r \in Req :
        (pc[r] # "idle" /\ call[r].via = "invoke") =>
            /\ ~WithinLengths(r) =>
                /\ pc[r] = "done"
                /\ Status(r) = 422
                /\ ~ResponderCalled(r)
                /\ outcome[r] = NoOutcome
                /\ modelCall[r] = "none"
            /\ ResponderCalled(r) => WithinLengths(r)
            /\ WithinLengths(r) => ResponderCalled(r)

\* a draft of 20001 characters was rejected while the service was serving
C21_Witness ==
    \E r \in Req :
        /\ Done(r, "invoke")
        /\ service = "reviewer"
        /\ lifespan = "serving"
        /\ Chars(call[r].draft) = 20001
        /\ Chars(call[r].topic) = 1
        /\ Status(r) = 422
        /\ ~ResponderCalled(r)


\* review_summary failed for request r: it found the service not initialized,
\* or the responder it called raised
ToolFailed(r) ==
    /\ Done(r, "tool")
    /\ (~ResponderCalled(r) \/ outcome[r].state = "raised")

\* the failure reached the tool-invocation layer as a raised exception
ToolFailurePropagates ==
    \A r \in Req :
        ToolFailed(r) =>
            /\ reply[r].kind = "raised"
            /\ ~ResponderCalled(r) => reply[r].exc.type = "RuntimeError"

\* C22: a review_summary call whose responder fails returns no result record:
\* the failure is raised to the tool-invocation layer, as RuntimeError when the
\* service is not initialized and as TimeoutError when the model call exceeds
\* the timeout.
C22_ToolErrors ==
    /\ ToolFailurePropagates
    /\ \A r \in Req :
        (ToolFailed(r) /\ awaited[r].raised /\ awaited[r].src = "wait_for") =>
            reply[r].exc.type = "TimeoutError"

\* the model-client close of the shutdown sequence has started
ShutdownBegun == client \in {"closing", "closed", "close_failed"}

\* request r enters the core responder in this step
ReachesResponder(r) ==
    /\ pc[r] = "idle"
    /\ pc'[r] # "idle"
    /\ ResponderCalled(r)'

\* C23: under any interleaving with the shutdown sequence, a request that
\* reaches the core responder after the model-client close has started fails
\* with the not-initialized condition and issues no model call on the closing
\* or closed client.
C23_ShutdownRejects ==
    [][\A r \in Req :
        (ShutdownBegun /\ ReachesResponder(r)) =>
            /\ outcome'[r] = ResponderRaises(NotInitialized)
            /\ modelCall'[r] = "none"
      ]_vars

\* the message has no text part, or nothing but whitespace in its text parts
NoText(message) ==
    \A i \in DOMAIN message.parts :
        message.parts[i].kind = "text" =>
            \A j \in DOMAIN message.parts[i].text : IsSpace(message.parts[i].text[j])

\* message/send took request r with a message without text while the handle was set
BlankMessageServed(r) ==
    /\ pc[r] # "idle"
    /\ call[r].via = "a2a"
    /\ NoText(call[r].message)
    /\ frame[r].handle = "AgentRuntime"

\* C26: the messaging front-end applies none of the /invoke length checks: a
\* message with no text parts, or with whitespace-only text, still causes
\* exactly one responder call when the handle is set, with an empty topic for
\* the writer and topic = draft = "" for the reviewer.
C26_BlankMessage ==
    /\ [](\A r \in Req :
            BlankMessageServed(r) =>
                /\ ResponderCalled(r)
                /\ frame[r].topic = <<>>
                /\ frame[r].draft = <<>>
                /\ reply[r] # RequestValidationError
                /\ outcome[r] # ResponderRaises(NotInitialized)
                /\ (pc[r] = "awaiting" => modelCall[r] = "issued"))
    /\ [][\A r \in Req :
            (BlankMessageServed(r) /\ ResponderCalled(r)) => frame'[r] = frame[r]]_vars

\* the reviewer answered a message whose text parts were whitespace only
C26_Witness ==
    \E r \in Req :
        /\ BlankMessageServed(r)
        /\ call[r].message.parts = BlankParts
        /\ service = "reviewer"
        /\ pc[r] = "done"
        /\ outcome[r].state = "returned"
        /\ reply[r].kind # "none"

(***************************************************************************)
(* workflow.py: AzureBearerTokenAuth._get_access_token.  A caller runs to  *)
(* its next await in one step: the lock's acquire() when the lock is not   *)
(* free, credential.get_token(...) under the lock.                         *)
(***************************************************************************)
MaxTicks == 2

\* the validity get_token gives a token: up to the skew, and beyond it
Lifetimes == { refresh_skew_seconds, 2 * refresh_skew_seconds }

\* the test of the cached token with no token ever found usable
TokenFresh_never == FALSE

\* self._access_token and (self._expires_on - now) > self._refresh_skew_seconds
TokenFresh ==
    /\ _access_token # NoToken
    /\ (_expires_on - now) > refresh_skew_seconds

\* a lock every acquire() gets at once
LockFree_always == TRUE

\* asyncio.Lock.acquire returns at once: not locked and nobody waiting
LockFree == ~_lock.locked /\ _lock.waiters = <<>>

Returns(via, token) == [pc |-> "done", via |-> via, token |-> token]

\* leaving `async with self._lock`: release(), which wakes the first waiter
Release(waiters) == [locked |-> FALSE, waiters |-> waiters]

\* the body of `async with self._lock` up to its await, the lock just taken
\* with `waiters` left in the queue
UnderLock(c, waiters) ==
    IF TokenFresh
    THEN /\ caller' = [caller EXCEPT ![c] = Returns("lock_cache", _access_token)]
         /\ _lock' = Release(waiters)
    ELSE /\ caller' = [caller EXCEPT ![c] = [NotCalled EXCEPT !.pc = "fetching"]]
         /\ _lock' = [locked |-> TRUE, waiters |-> waiters]

\* a call of _get_access_token, up to its first await or its return
GetAccessToken(c) ==
    /\ caller[c].pc = "idle"
    /\ IF TokenFresh
       THEN /\ caller' = [caller EXCEPT ![c] = Returns("cache", _access_token)]
            /\ UNCHANGED _lock
       ELSE IF LockFree
            THEN UnderLock(c, _lock.waiters)
            ELSE /\ caller' = [caller EXCEPT ![c] = [NotCalled EXCEPT !.pc = "waiting"]]
                 /\ _lock' = [_lock EXCEPT !.waiters = Append(@, c)]
    /\ UNCHANGED <<_access_token, _expires_on, now, fetched, parseVars, svcVars, waitVars, cardVars, mainVars>>

\* the first waiter is resumed in acquire() and takes the lock
LockAcquired(c) ==
    /\ caller[c].pc = "waiting"
    /\ ~_lock.locked
    /\ _lock.waiters # <<>>
    /\ Head(_lock.waiters) = c
    /\ UnderLock(c, Tail(_lock.waiters))
    /\ UNCHANGED <<_access_token, _expires_on, now, fetched, parseVars, svcVars, waitVars, cardVars, mainVars>>

\* credential.get_token returns: the token is cached and returned
GetTokenReturns(c) ==
    /\ caller[c].pc = "fetching"
    /\ \E life \in Lifetimes :
        LET token == [token |-> Len(fetched) + 1, expires_on |-> now + life]
        IN  /\ _access_token' = token.token
            /\ _expires_on' = token.expires_on
            /\ fetched' = Append(fetched, token)
            /\ caller' = [caller EXCEPT ![c] = Returns("fetch", token.token)]
    /\ _lock' = Release(_lock.waiters)
    /\ UNCHANGED <<now, parseVars, svcVars, waitVars, cardVars, mainVars>>

\* credential.get_token raises and the lock stays held
GetTokenRaises_keeps_lock(c) ==
    /\ caller[c].pc = "fetching"
    /\ fetched' = Append(fetched, [token |-> NoToken, expires_on |-> 0])
    /\ caller' = [caller EXCEPT ![c] = Returns("raised", NoToken)]
    /\ UNCHANGED <<_lock, _access_token, _expires_on, now, parseVars, svcVars, waitVars, cardVars, mainVars>>

\* credential.get_token raises: the exception leaves `async with self._lock`,
\* which releases the lock, and then _get_access_token
GetTokenRaises(c) ==
    /\ caller[c].pc = "fetching"
    /\ fetched' = Append(fetched, [token |-> NoToken, expires_on |-> 0])
    /\ caller' = [caller EXCEPT ![c] = Returns("raised", NoToken)]
    /\ _lock' = Release(_lock.waiters)
    /\ UNCHANGED <<_access_token, _expires_on, now, parseVars, svcVars, waitVars, cardVars, mainVars>>

\* time.time() advances
Tick ==
    /\ now < MaxTicks * (refresh_skew_seconds \div 2)
    /\ now' = now + refresh_skew_seconds \div 2
    /\ UNCHANGED <<_access_token, _expires_on, _lock, caller, fetched,
                   parseVars, svcVars, waitVars, cardVars, mainVars>>

InitTokenSpec ==
    /\ WaitNotStarted
    /\ InitToken
    /\ NoDiscovery
    /\ MainNotStarted
    /\ shared_scope = TRUE
    /\ text = <<>>
    /\ parsed = <<>>
    /\ service = "writer"
    /\ environ = [A2A_INCLUDE_ERROR_DETAILS |-> Unset, AGENT_TIMEOUT_SECONDS |-> Unset]
    /\ InitLifespan
    /\ InitRequests

NextToken ==
    \/ \E c \in Callers : GetAccessToken(c)
    \/ \E c \in Callers : LockAcquired(c)
    \/ \E c \in Callers : GetTokenReturns(c)
    \/ \E c \in Callers : GetTokenRaises(c)
    \/ Tick

SpecToken == InitTokenSpec /\ [][NextToken]_vars

\* the event loop resumes the waiter that release() woke
FairSpecToken == SpecToken /\ \A c \in Callers : WF_vars(LockAcquired(c))
(***************************************************************************)
(* workflow.py: _fetch_reviewer_card and _normalize_card_url.              *)
(***************************************************************************)
MaxUrlLen == 3

UrlChars == {"a", "b", "/"}

RECURSIVE Urls(_)
Urls(n) ==
    IF n = 0 THEN { <<>> }
    ELSE Urls(n - 1) \cup { Append(u, ch) : u \in { v \in Urls(n - 1) : Len(v) = n - 1 },
                                            ch \in UrlChars }

\* str.rstrip("/")
RECURSIVE str_rstrip_slash(_)
str_rstrip_slash(s) ==
    IF s # <<>> /\ s[Len(s)] = "/" THEN str_rstrip_slash(SubSeq(s, 1, Len(s) - 1))
    ELSE s

\* card.url or ""
UrlOrEmpty(card) == IF card.has_url /\ card.url # <<>> THEN card.url ELSE <<>>

\* card.model_copy(update={"url": url}): another object, the url replaced
model_copy(card, url) == AgentCard(card.id + 1, TRUE, url)

\* normalization that trusts the advertised url
_normalize_card_url_trusting(card, expected_base_url) == card

_normalize_card_url(card, expected_base_url) ==
    LET expected == str_rstrip_slash(expected_base_url)
        actual_url == str_rstrip_slash(UrlOrEmpty(card))
    IN  IF actual_url = expected THEN card
        ELSE model_copy(card, expected)

\* the base URLs a card can be fetched from: get_agent_card() returns no card
\* for a base URL without a host
BaseUrls == { u \in Urls(MaxUrlLen) : str_rstrip_slash(u) # <<>> }

\* the cards an agent may serve: no url, or any url
Cards == { AgentCard(1, FALSE, <<>>) } \cup { AgentCard(1, TRUE, u) : u \in Urls(MaxUrlLen) }

\* agent_card = await a2a_card_resolver.get_agent_card(), then the
\* normalization
FetchReviewerCard ==
    /\ agent_card = NoCard
    /\ \E card \in Cards :
        /\ advertised' = card
        /\ agent_card' = _normalize_card_url(card, a2a_base_url)
    /\ UNCHANGED <<a2a_base_url, tokVars, parseVars, svcVars, waitVars, mainVars>>

InitCard ==
    /\ WaitNotStarted
    /\ a2a_base_url \in BaseUrls
    /\ advertised = NoCard
    /\ agent_card = NoCard
    /\ InitToken
    /\ MainNotStarted
    /\ shared_scope = FALSE
    /\ text = <<>>
    /\ parsed = <<>>
    /\ service = "writer"
    /\ environ = [A2A_INCLUDE_ERROR_DETAILS |-> Unset, AGENT_TIMEOUT_SECONDS |-> Unset]
    /\ InitLifespan
    /\ InitRequests

NextCard == FetchReviewerCard

SpecCard == InitCard /\ [][NextCard]_vars

(***************************************************************************)
(* workflow.py: main().  main runs to its next await in one step: the two  *)
(* discoveries, the prompt (input in a thread), each event of the run's    *)
(* stream, and the two close() calls of the finally block.                 *)
(***************************************************************************)
MaxEvents == 3

WriterName == "Writer Agent"

ReviewerName == "Reviewer Agent"

\* executor_id_to_name.get(source, source)
executor_id_to_name(source) ==
    CASE source = "writer_agent" -> WriterName
      [] source = "reviewer_agent" -> ReviewerName
      [] OTHER -> source

\* what main prints
Line(s) == [kind |-> "line", text |-> s]

Blank == [kind |-> "blank", text |-> ""]

Header(display) == [kind |-> "header", text |-> display]

Block(s) == [kind |-> "block", text |-> s]

Banner(name) == [kind |-> "banner", text |-> name]

\* _wrap_for_console, for a text of one short word: the stripped text behind
\* the indent, or "" when nothing is left
_wrap_for_console(data) ==
    IF str_strip(data) = <<>> THEN <<>> ELSE <<SP, SP>> \o str_strip(data)

NoOutputText == <<SP, SP, "(no output)">>

\* the events of a run: per-token updates, node outputs, anything else
AgentRunUpdateEvent(source) ==
    [type |-> "AgentRunUpdateEvent", source_executor_id |-> source, data |-> <<"x">>]

WorkflowOutputEvent(source, data) ==
    [type |-> "WorkflowOutputEvent", source_executor_id |-> source, data |-> data]

OtherEvent == [type |-> "WorkflowStatusEvent", source_executor_id |-> "None", data |-> <<>>]

\* the end of the stream, kept in `events` once the loop over it has ended
StreamEnd == [type |-> "end", source_executor_id |-> "None", data |-> <<>>]

RunEvents ==
    { AgentRunUpdateEvent("writer_agent"),
      WorkflowOutputEvent("writer_agent", <<"x">>),
      WorkflowOutputEvent("reviewer_agent", <<"x">>),
      WorkflowOutputEvent("reviewer_agent", <<SP>>),
      WorkflowOutputEvent("None", <<"x">>),
      OtherEvent }

\* what the user types at the prompt
Prompts == { <<>>, <<SP>>, <<SP, "E", "x", "i", "t">>, <<"h", "i">> }

Str_exit == <<"e", "x", "i", "t">>

\* the header printed before every block
HeaderNeeded_always(source) == TRUE

\* if source != last_output_source
HeaderNeeded(source) == source # last_output_source

\* getattr(event, "source_executor_id", None) or "unknown"
SourceOf(event) ==
    IF event.source_executor_id = "None" THEN "unknown" ELSE event.source_executor_id

\* the finally block reached without any close()
EnterFinally_skipped(why) ==
    /\ main_pc' = "exited"
    /\ ending' = why
    /\ UNCHANGED <<http_client, orch_credential>>

\* the try block is left, by break or by an exception: await http_client.aclose()
EnterFinally(why) ==
    /\ main_pc' = "aclose"
    /\ ending' = why
    /\ UNCHANGED <<http_client, orch_credential>>

\* main() up to the first discovery
MainStarts ==
    /\ main_pc = "not_started"
    /\ main_pc' = "discover_writer"
    /\ orch_credential' = IF shared_scope THEN "open" ELSE "none"
    /\ http_client' = "open"
    /\ UNCHANGED <<shared_scope, ending, last_output_source, final_output_source,
                   events, console, tokVars, cardVars, parseVars, svcVars, waitVars>>

\* _fetch_reviewer_card returns for the writer, then for the reviewer, after
\* which the workflow is built and the first prompt is awaited
DiscoveryReturns ==
    /\ main_pc \in {"discover_writer", "discover_reviewer"}
    /\ main_pc' = IF main_pc = "discover_writer" THEN "discover_reviewer" ELSE "prompt"
    /\ console' = Append(console, Line("Discovered"))
    /\ UNCHANGED <<shared_scope, http_client, orch_credential, ending,
                   last_output_source, final_output_source, events,
                   tokVars, cardVars, parseVars, svcVars, waitVars>>

\* _fetch_reviewer_card raises
DiscoveryRaises ==
    /\ main_pc \in {"discover_writer", "discover_reviewer"}
    /\ EnterFinally("discovery failed")
    /\ UNCHANGED <<shared_scope, last_output_source, final_output_source, events,
                   console, tokVars, cardVars, parseVars, svcVars, waitVars>>

\* input() returns what the user typed
InputReturns ==
    /\ main_pc = "prompt"
    /\ \E typed \in Prompts :
        LET user_prompt == str_strip(typed)
        IN  IF user_prompt = <<>>
            THEN /\ console' = <<>>
                 /\ events' = <<>>
                 /\ UNCHANGED <<main_pc, ending, http_client, orch_credential,
                                last_output_source, final_output_source>>
            ELSE IF str_lower(user_prompt) = Str_exit
            THEN /\ console' = <<Line("Exiting.")>>
                 /\ EnterFinally("exit")
                 /\ UNCHANGED <<last_output_source, final_output_source, events>>
            ELSE /\ main_pc' = "running"
                 /\ last_output_source' = "None"
                 /\ final_output_source' = "None"
                 /\ events' = <<>>
                 /\ console' = <<>>
                 /\ UNCHANGED <<ending, http_client, orch_credential>>
    /\ UNCHANGED <<shared_scope, tokVars, cardVars, parseVars, svcVars, waitVars>>

\* input() raises EOFError or KeyboardInterrupt: "Exiting." and break
InputRaises ==
    /\ main_pc = "prompt"
    /\ \E exc \in {"EOFError", "KeyboardInterrupt"} : EnterFinally(exc)
    /\ console' = <<Line("Exiting.")>>
    /\ UNCHANGED <<shared_scope, last_output_source, final_output_source, events,
                   tokVars, cardVars, parseVars, svcVars, waitVars>>

\* the stream gives an event: one pass of the body of `async for`
NextEvent ==
    /\ main_pc = "running"
    /\ Len(events) < MaxEvents
    /\ \E event \in RunEvents :
        /\ events' = Append(events, event)
        /\ IF event.type = "WorkflowOutputEvent"
           THEN LET source  == SourceOf(event)
                    wrapped == _wrap_for_console(event.data)
                    head    == IF HeaderNeeded(source)
                               THEN (IF last_output_source # "None" THEN <<Blank>> ELSE <<>>)
                                     \o <<Header(executor_id_to_name(source))>>
                               ELSE <<>>
                IN  /\ console' = console \o head \o
                                  <<Block(IF wrapped # <<>> THEN wrapped ELSE NoOutputText)>>
                    /\ last_output_source' =
                           IF HeaderNeeded(source) THEN source ELSE last_output_source
                    /\ final_output_source' = executor_id_to_name(source)
           ELSE UNCHANGED <<console, last_output_source, final_output_source>>
    /\ UNCHANGED <<main_pc, shared_scope, http_client, orch_credential, ending,
                   tokVars, cardVars, parseVars, svcVars, waitVars>>

\* the stream ends: the banner, and the loop awaits the next prompt
RunEnds ==
    /\ main_pc = "running"
    /\ main_pc' = "prompt"
    /\ events' = Append(events, StreamEnd)
    /\ console' = IF final_output_source # "None"
                  THEN Append(console, Banner(final_output_source))
                  ELSE console
    /\ UNCHANGED <<shared_scope, http_client, orch_credential, ending,
                   last_output_source, final_output_source,
                   tokVars, cardVars, parseVars, svcVars, waitVars>>

\* the stream raises: no except clause of main catches it
RunRaises ==
    /\ main_pc = "running"
    /\ EnterFinally("run failed")
    /\ UNCHANGED <<shared_scope, last_output_source, final_output_source, events,
                   console, tokVars, cardVars, parseVars, svcVars, waitVars>>

\* main's task is cancelled while it awaits (an interrupt under asyncio.run)
Cancelled ==
    /\ main_pc \in {"discover_writer", "discover_reviewer", "prompt", "running"}
    /\ EnterFinally("CancelledError")
    /\ UNCHANGED <<shared_scope, last_output_source, final_output_source, events,
                   console, tokVars, cardVars, parseVars, svcVars, waitVars>>

\* http_client.aclose() returns: if credential is not None, credential.close()
AcloseReturns ==
    /\ main_pc = "aclose"
    /\ http_client' = "closed"
    /\ main_pc' = IF orch_credential # "none" THEN "credential_close" ELSE "exited"
    /\ UNCHANGED <<shared_scope, orch_credential, ending, last_output_source,
                   final_output_source, events, console,
                   tokVars, cardVars, parseVars, svcVars, waitVars>>

\* credential.close() returns: main returns, or the pending exception leaves it
MainCredentialCloseReturns ==
    /\ main_pc = "credential_close"
    /\ orch_credential' = "closed"
    /\ main_pc' = "exited"
    /\ UNCHANGED <<shared_scope, http_client, ending, last_output_source,
                   final_output_source, events, console,
                   tokVars, cardVars, parseVars, svcVars, waitVars>>

InitMain ==
    /\ WaitNotStarted
    /\ MainNotStarted
    /\ shared_scope \in BOOLEAN
    /\ InitToken
    /\ NoDiscovery
    /\ text = <<>>
    /\ parsed = <<>>
    /\ service = "writer"
    /\ environ = [A2A_INCLUDE_ERROR_DETAILS |-> Unset, AGENT_TIMEOUT_SECONDS |-> Unset]
    /\ InitLifespan
    /\ InitRequests

NextMain ==
    \/ MainStarts
    \/ DiscoveryReturns
    \/ DiscoveryRaises
    \/ InputReturns
    \/ InputRaises
    \/ NextEvent
    \/ RunEnds
    \/ RunRaises
    \/ Cancelled
    \/ AcloseReturns
    \/ MainCredentialCloseReturns

SpecMain == InitMain /\ [][NextMain]_vars

(***************************************************************************)
(* scripts/wait_for_agents.py.  A round of the loop (the two GETs, the     *)
(* reading of the clock, the print and the two tests) is one step;         *)
(* time.sleep(args.interval) is another.                                   *)
(***************************************************************************)
MaxTimeout == 2

\* --timeout
Timeouts == 0..MaxTimeout

\* --interval
Intervals == {0, 1}

\* how long the two GETs of one round take together
RoundSeconds == {0, 1, 2}

\* the JSON texts of the member `initialized` the model draws from
InitializedValues == { "missing", "true", "false", "\"false\"" }

Responses ==
    { NoResponse, Response(503, NoBody), Response(204, NoBody),
      Response(200, NotJson), Response(200, JsonArray) }
    \cup { Response(200, JsonObject(v)) : v \in InitializedValues }

\* bool(payload.get("initialized", False)): a JSON string is truthy unless empty
bool_initialized(body) == body.initialized \in { "true", "\"false\"" }

\* _check_healthz: whether it raises (payload.get on a document that is no
\* object is an AttributeError no except clause catches), and else `ready`
_check_healthz(resp) ==
    IF resp.status # 200 THEN [raises |-> FALSE, ready |-> FALSE]
    ELSE IF resp.body.kind = "not_json" THEN [raises |-> FALSE, ready |-> FALSE]
    ELSE IF resp.body.kind # "object" THEN [raises |-> TRUE, ready |-> FALSE]
    ELSE [raises |-> FALSE, ready |-> bool_initialized(resp.body)]

\* main() up to the loop: parse_args(), start = time.time(), last_print = 0.0.
\* last_print is kept relative to start: 0.0 lies at least print_every before it.
WaitStarts ==
    /\ wait_pc = "not_started"
    /\ \E t \in Timeouts, i \in Intervals : wait_args' = [timeout |-> t, interval |-> i]
    /\ wait_pc' = "polling"
    /\ since_start' = 0
    /\ last_print' = 0 - print_every
    /\ UNCHANGED <<writer_resp, reviewer_resp, writer_ready, reviewer_ready, wait_result,
                   parseVars, svcVars, tokVars, cardVars, mainVars>>

\* one round of `while True`
Round ==
    /\ wait_pc = "polling"
    /\ \E wr, rr \in Responses, d \in RoundSeconds :
        LET w     == _check_healthz(wr)
            r     == _check_healthz(rr)
            now_  == since_start + d
        IN  IF w.raises
            THEN /\ wait_pc' = "raised"
                 /\ writer_resp' = wr
                 /\ UNCHANGED <<reviewer_resp, writer_ready, reviewer_ready,
                                since_start, last_print, wait_result>>
            ELSE IF r.raises
            THEN /\ wait_pc' = "raised"
                 /\ writer_resp' = wr
                 /\ reviewer_resp' = rr
                 /\ writer_ready' = w.ready
                 /\ UNCHANGED <<reviewer_ready, since_start, last_print, wait_result>>
            ELSE /\ writer_resp' = wr
                 /\ reviewer_resp' = rr
                 /\ writer_ready' = w.ready
                 /\ reviewer_ready' = r.ready
                 /\ since_start' = now_
                 /\ last_print' = IF now_ - last_print >= print_every
                                  THEN now_ ELSE last_print
                 /\ IF w.ready /\ r.ready
                    THEN wait_pc' = "returned" /\ wait_result' = 0
                    ELSE IF now_ >= wait_args.timeout
                         THEN wait_pc' = "returned" /\ wait_result' = 1
                         ELSE wait_pc' = "sleeping" /\ UNCHANGED wait_result
    /\ UNCHANGED <<wait_args, parseVars, svcVars, tokVars, cardVars, mainVars>>

\* time.sleep(args.interval) returns
SleepReturns ==
    /\ wait_pc = "sleeping"
    /\ wait_pc' = "polling"
    /\ since_start' = since_start + wait_args.interval
    /\ UNCHANGED <<wait_args, last_print, writer_resp, reviewer_resp,
                   writer_ready, reviewer_ready, wait_result,
                   parseVars, svcVars, tokVars, cardVars, mainVars>>

InitWait ==
    /\ WaitNotStarted
    /\ InitToken
    /\ NoDiscovery
    /\ MainNotStarted
    /\ shared_scope = FALSE
    /\ text = <<>>
    /\ parsed = <<>>
    /\ service = "writer"
    /\ environ = [A2A_INCLUDE_ERROR_DETAILS |-> Unset, AGENT_TIMEOUT_SECONDS |-> Unset]
    /\ InitLifespan
    /\ InitRequests

NextWait ==
    \/ WaitStarts
    \/ Round
    \/ SleepReturns

SpecWait == InitWait /\ [][NextWait]_vars

(***************************************************************************)
(* The claims about the orchestrator.                                      *)
(***************************************************************************)
Fetching == { c \in Callers : caller[c].pc = "fetching" }

\* a token is cached whose remaining validity exceeds the refresh skew
CachedBeyondSkew ==
    _access_token # NoToken /\ _expires_on - now > refresh_skew_seconds

\* a step in which caller c calls _get_access_token
CallStep(c) == caller[c].pc = "idle" /\ caller'[c].pc # "idle"

\* C15: a call of _get_access_token made while a token is cached whose
\* remaining validity exceeds the skew returns that token, does not touch the
\* lock and starts no credential.get_token; so do any number of such calls, in
\* any order.
C15_CachedToken ==
    /\ [][\A c \in Callers :
            (CallStep(c) /\ CachedBeyondSkew) =>
                /\ caller'[c] = Returns("cache", _access_token)
                /\ UNCHANGED <<_access_token, _expires_on, _lock, fetched>>
                /\ Fetching' = Fetching]_vars
    /\ [](\A c \in Callers :
            caller[c].via = "cache" =>
                \E i \in 1..Len(fetched) : fetched[i].token = caller[c].token)

\* two calls answered from the cache with the token a third caller fetched
C15_Witness ==
    \E c, d, e \in Callers :
        /\ c # d
        /\ caller[c].via = "cache"
        /\ caller[d].via = "cache"
        /\ caller[e].via = "fetch"
        /\ caller[c].token = caller[e].token
        /\ caller[d].token = caller[e].token
        /\ Len(fetched) = 1

\* every token fetched so far is still valid beyond the skew
AllFetchedFresh ==
    \A i \in 1..Len(fetched) :
        /\ fetched[i].token # NoToken
        /\ (fetched[i].expires_on - now) > refresh_skew_seconds

\* C16: at most one credential.get_token is in progress at any time, and it is
\* the lock holder's; while every fetched token is valid beyond the skew at
\* most one fetch has been made in all; a caller that waited for the lock and
\* finds such a token returns it without fetching.
C16_SingleFetch ==
    /\ [](Cardinality(Fetching) <= 1)
    /\ [](Fetching # {} => _lock.locked)
    /\ [](AllFetchedFresh => Len(fetched) + Cardinality(Fetching) <= 1)
    /\ [][\A c \in Callers :
            (caller[c].pc = "waiting" /\ caller'[c].pc # "waiting" /\ CachedBeyondSkew) =>
                /\ caller'[c] = Returns("lock_cache", _access_token)
                /\ UNCHANGED fetched]_vars

\* two callers found no token: one fetched, the other waited on the lock and
\* returned the fetched token
C16_Witness ==
    \E c, d \in Callers :
        /\ caller[c].via = "fetch"
        /\ caller[d].via = "lock_cache"
        /\ caller[d].token = caller[c].token
        /\ Len(fetched) = 1

RECURSIVE DropSlashes(_)
\* u without its trailing slashes
DropSlashes(u) ==
    IF u = <<>> THEN u
    ELSE IF u[Len(u)] = "/" THEN DropSlashes(SubSeq(u, 1, Len(u) - 1)) ELSE u

SameUrl(u, v) == DropSlashes(u) = DropSlashes(v)

\* C17: the card _fetch_reviewer_card returns has a url equal to the base URL
\* up to trailing slashes, whatever the agent advertised (no url included); a
\* card whose url already matches is returned as it is; normalizing the result
\* again with the same base URL changes nothing.
C17_CardUrl ==
    agent_card # NoCard =>
        /\ agent_card.has_url
        /\ SameUrl(agent_card.url, a2a_base_url)
        /\ (advertised.has_url /\ SameUrl(advertised.url, a2a_base_url)) =>
               agent_card = advertised
        /\ _normalize_card_url(agent_card, a2a_base_url) = agent_card
        /\ _normalize_card_url(_normalize_card_url(advertised, a2a_base_url), a2a_base_url)
               = _normalize_card_url(advertised, a2a_base_url)

\* a card that advertised another url was rewritten
C17_Witness ==
    /\ agent_card # NoCard
    /\ advertised.has_url
    /\ ~SameUrl(advertised.url, a2a_base_url)
    /\ agent_card.url = <<"a", "/", "b">>
    /\ a2a_base_url = <<"a", "/", "b">>
    /\ advertised.url = <<"a", "/", "/">>

C19_FailedRunKeepsSession ==
    ending \in {"none", "exit", "EOFError", "KeyboardInterrupt", "CancelledError",
                "discovery failed"}

\* the output events the run's stream gave so far
IsOutput(event) == event.type = "WorkflowOutputEvent"

Outputs == SelectSeq(events, IsOutput)

\* the places of the blocks in the console; the k-th place is the Ord(k)-th block
BlockAt == { k \in 1..Len(console) : console[k].kind = "block" }

Ord(k) == Cardinality({ i \in BlockAt : i <= k })

\* the run's stream has ended and the next prompt is not answered yet
RunOver ==
    main_pc = "prompt" /\ events # <<>> /\ events[Len(events)].type = "end"

\* the output event differs in source from the output event before it
SourceChanges(j) ==
    j = 1 \/ SourceOf(Outputs[j]) # SourceOf(Outputs[j - 1])

\* C20: during a run the console holds one block per output event and nothing
\* for any other event; a block has a label header right before it exactly
\* when its event's source differs from that of the output event before it
\* (the first block always has one); once the run is over the console ends
\* with a final-output banner exactly when there was an output event, and the
\* banner names the node of the last one.
C20_RunConsole ==
    (main_pc = "running" \/ RunOver) =>
        /\ Cardinality(BlockAt) = Len(Outputs)
        /\ \A k \in 1..Len(console) :
            /\ console[k].kind \in {"block", "header", "blank", "banner"}
            /\ console[k].kind = "block" =>
                /\ (k > 1 /\ console[k - 1].kind = "header") <=> SourceChanges(Ord(k))
                /\ (k > 1 /\ console[k - 1].kind = "header") =>
                       console[k - 1].text = executor_id_to_name(SourceOf(Outputs[Ord(k)]))
            /\ console[k].kind = "header" =>
                   k < Len(console) /\ console[k + 1].kind = "block"
            /\ console[k].kind = "blank" =>
                   k > 1 /\ k < Len(console) /\ console[k + 1].kind = "header"
            /\ console[k].kind = "banner" => (k = Len(console) /\ RunOver)
        /\ RunOver =>
            /\ (console # <<>> /\ console[Len(console)].kind = "banner") <=> Outputs # <<>>
            /\ Outputs # <<>> =>
                   console[Len(console)].text =
                       executor_id_to_name(SourceOf(Outputs[Len(Outputs)]))

\* a run with a per-token update, an output of the writer and then one of the
\* reviewer: two headers, two blocks and the banner of the reviewer
C20_Witness ==
    /\ RunOver
    /\ Len(Outputs) = 2
    /\ \E i \in 1..Len(events) : events[i].type = "AgentRunUpdateEvent"
    /\ SourceOf(Outputs[1]) = "writer_agent"
    /\ SourceOf(Outputs[2]) = "reviewer_agent"
    /\ console[Len(console)] = Banner(ReviewerName)
    /\ Len(console) = 6

\* a step in which credential.get_token raises to caller c
RaiseStep(c) ==
    /\ caller[c].pc = "fetching"
    /\ caller'[c].pc = "done"
    /\ caller'[c].via = "raised"

Waiting == { c \in Callers : caller[c].pc = "waiting" }

\* C25: when credential.get_token raises during a refresh, the lock is
\* released, the cached token and its expiry stay as they were, and the
\* exception reaches that caller only; callers waiting on the lock are not
\* blocked forever (only while some get_token is in progress), and each later
\* call attempts a new fetch.
C25_FailedRefresh ==
    /\ [][\A c \in Callers :
            RaiseStep(c) =>
                /\ ~_lock'.locked
                /\ _lock'.waiters = _lock.waiters
                /\ UNCHANGED <<_access_token, _expires_on>>
                /\ ~CachedBeyondSkew'
                /\ \A d \in Callers \ {c} : caller'[d] = caller[d]]_vars
    /\ [][\A c \in Callers :
            (caller[c].via # "raised" /\ caller'[c].via = "raised") =>
                caller[c].pc = "fetching"]_vars
    /\ [](_lock.locked => Fetching # {})
    /\ \A c \in Callers : (c \in Waiting) ~> (c \notin Waiting \/ Fetching # {})
    /\ [][\A c \in Callers :
            (CallStep(c) /\ ~CachedBeyondSkew) =>
                caller'[c].pc \in {"fetching", "waiting"}]_vars
    /\ [][\A c \in Callers :
            (c \in Waiting /\ c \notin Waiting' /\ ~CachedBeyondSkew) =>
                caller'[c].pc = "fetching"]_vars

\* get_token raised to one caller while a second waited on the lock; the
\* second then fetched a token itself, and a third call made after the failure
\* got a token as well
C25_Witness ==
    \E c, d, e \in Callers :
        /\ caller[c].via = "raised"
        /\ caller[d].via = "fetch"
        /\ caller[e].pc = "done"
        /\ caller[e].via \in {"cache", "lock_cache", "fetch"}
        /\ d # e
        /\ Len(fetched) >= 2
        /\ fetched[1].token = NoToken
        /\ fetched[2].token = caller[d].token
        /\ _access_token # NoToken

\* HTTP 200 and a JSON object whose member initialized is true
Ready(resp) ==
    /\ resp.status = 200
    /\ resp.body.kind = "object"
    /\ resp.body.initialized = "true"

\* the last round found both agents ready
BothReady == Ready(writer_resp) /\ Ready(reviewer_resp)

\* C24: the polling loop of wait_for_agents ends with 0 or 1: 0 exactly when a
\* round finds both agents ready (HTTP 200 and JSON with initialized == true)
\* in that same round, even past the deadline, and otherwise 1 at the first
\* round that ends with elapsed time >= timeout; at least one round runs.
C24_Polling ==
    /\ wait_pc \in {"not_started", "polling", "sleeping", "returned"}
    /\ wait_pc = "returned" =>
        /\ wait_result \in {0, 1}
        /\ wait_result = 0 <=> BothReady
        /\ wait_result = 1 => since_start >= wait_args.timeout
    /\ wait_pc = "sleeping" => (~BothReady /\ since_start < wait_args.timeout)
    /\ wait_pc = "polling" => (wait_result = NoResult /\ ~BothReady)
====
